---- MODULE Spec2Model ----
(***************************************************************************)
(* GridZero adaptive difficulty model (src/ezkl/model.py).                 *)
(*                                                                         *)
(* The script is one sequential pipeline: generate a synthetic data set    *)
(* from numpy's global generator, train a 5-16-8-1 network for a fixed     *)
(* number of epochs, predict one sample, export the graph, write a sample  *)
(* input, save the parameters.                                             *)
(*                                                                         *)
(* Arithmetic.  The float64 arithmetic of the data generator is carried    *)
(* exactly, as rationals <<numerator, denominator>> in lowest terms.  The  *)
(* float32 arithmetic of the network output is binary floating point with  *)
(* round-to-nearest-even on a significand of MantBits bits (float32 has    *)
(* 24; the rounding behaviour checked here is the same for any width).     *)
(***************************************************************************)
EXTENDS Integers, Sequences, FiniteSets, TLC

\* ------------------------------------------------------------------ bounds

\* largest sample count passed to generate_training_data
MaxN == 2
\* words of generator state (MT19937 keeps 624)
RegLen == 6
\* draws other code may make on the global generator between the two calls
MaxOther == 1

\* fractional bits of the grid on which float32 values are written
FracBits == 20
\* significand bits of the float32 model (24 in IEEE binary32)
MantBits == 8
\* parameter states of the model considered, besides the non-finite one
NumParams == 6

\* ------------------------------------------------------------- rationals

Abs(i) == IF i < 0 THEN -i ELSE i

RECURSIVE GCD(_, _)
GCD(a, b) == IF b = 0 THEN a ELSE GCD(b, a % b)

\* the rational n/d in lowest terms, d > 0
Rat(n, d) ==
    LET s == IF d < 0 THEN -1 ELSE 1
        g == GCD(Abs(n), Abs(d))
    IN  <<(s * n) \div g, (s * d) \div g>>

Num(i) == <<i, 1>>
RAdd(a, b) == Rat(a[1] * b[2] + b[1] * a[2], a[2] * b[2])
RSub(a, b) == Rat(a[1] * b[2] - b[1] * a[2], a[2] * b[2])
RMul(a, b) == Rat(a[1] * b[1], a[2] * b[2])
RDiv(a, b) == Rat(a[1] * b[2], a[2] * b[1])
RLt(a, b) == a[1] * b[2] < b[1] * a[2]
RLe(a, b) == a[1] * b[2] <= b[1] * a[2]

\* ------------------------------------------------------ float32 values

(* A float32 value is an integer count of 2^-FracBits, or NaN.  Fl rounds  *)
(* a non-negative count to MantBits significant bits, ties to even, as     *)
(* every float32 operation rounds its exact result.                        *)
RECURSIVE Pow2(_)
Pow2(k) == IF k = 0 THEN 1 ELSE 2 * Pow2(k - 1)

One == Pow2(FracBits)
NaN == 0 - 1

RECURSIVE BitLen(_)
BitLen(v) == IF v = 0 THEN 0 ELSE 1 + BitLen(v \div 2)

Fl(v) ==
    IF BitLen(v) <= MantBits THEN v
    ELSE LET unit == Pow2(BitLen(v) - MantBits)
             q == v \div unit
             rem == v % unit
             up == 2 * rem > unit \/ (2 * rem = unit /\ q % 2 = 1)
         IN  (IF up THEN q + 1 ELSE q) * unit

\* floor(n * 2^k / d) and the remainder, for 0 <= n < d, by long division
RECURSIVE LongDiv(_, _, _)
LongDiv(n, d, k) ==
    IF k = 0 THEN <<0, n>>
    ELSE LET h == LongDiv(n, d, k - 1)
             r2 == 2 * h[2]
         IN  IF r2 >= d THEN <<2 * h[1] + 1, r2 - d>> ELSE <<2 * h[1], r2>>

\* torch.FloatTensor / astype(np.float32) of a rational in [0,1]
ToFloat32(r) ==
    LET ip == r[1] \div r[2]
        ld == LongDiv(r[1] % r[2], r[2], FracBits)
        q == ip * One + ld[1]
    IN  Fl(IF 2 * ld[2] >= r[2] THEN q + 1 ELSE q)

\* ------------------------------------------------------ DifficultyModel

InDim == 5
Hidden1 == 16
Hidden2 == 8

RECURSIVE DotFrom(_, _, _)
DotFrom(w, x, j) == IF j > Len(w) THEN 0 ELSE w[j] * x[j] + DotFrom(w, x, j + 1)

\* nn.Linear: W x + b
RECURSIVE LinearFrom(_, _, _, _)
LinearFrom(W, b, x, i) ==
    IF i > Len(W) THEN <<>>
    ELSE <<DotFrom(W[i], x, 1) + b[i]>> \o LinearFrom(W, b, x, i + 1)
Linear(W, b, x) == LinearFrom(W, b, x, 1)

\* nn.ReLU
RECURSIVE ReLUFrom(_, _)
ReLUFrom(x, i) ==
    IF i > Len(x) THEN <<>>
    ELSE <<IF x[i] > 0 THEN x[i] ELSE 0>> \o ReLUFrom(x, i + 1)
ReLU(x) == ReLUFrom(x, 1)

(* nn.Sigmoid in float32, as a step function of the logit: 0 below -104    *)
(* (exp underflows), 1 from 17 on (1 - sigmoid rounds to 0), in between a  *)
(* positive value below 1; a logit in (-104,-12] gives the smallest        *)
(* positive value of the grid.                                             *)
Sigmoid(z) ==
    CASE z <= (-104) * One -> 0
      [] z > (-104) * One /\ z <= (-12) * One -> 1
      [] z > (-12) * One /\ z <= -One -> One \div 8
      [] z > -One /\ z < One -> One \div 2
      [] z >= One /\ z < 12 * One -> 7 * (One \div 8)
      [] z >= 12 * One /\ z < 17 * One -> One - One \div 256
      [] z >= 17 * One -> One

\* self.network(x): the raw sigmoid output
Network(p, x) ==
    IF p.nan THEN NaN
    ELSE Sigmoid(Linear(p.W3, p.b3,
                   ReLU(Linear(p.W2, p.b2,
                     ReLU(Linear(p.W1, p.b1, x)))))[1])

\* raw * 254 + 1
RescaleBy255(raw) == IF raw = NaN THEN NaN ELSE Fl(Fl(raw * 255) + One)
Rescale(raw) == IF raw = NaN THEN NaN ELSE Fl(Fl(raw * 254) + One)

\* DifficultyModel.forward(x): the scaled output
forward(p, x) == Rescale(Network(p, x))

(* The parameter states considered: weights in {-1,0,1}, biases in         *)
(* quarters and halves, and an output bias that puts the logit in each     *)
(* range of the sigmoid; and the non-finite state a diverged run leaves.   *)
Bias3(k) ==
    CASE k % 6 = 0 -> (-200) * One
      [] k % 6 = 1 -> (-40) * One
      [] k % 6 = 2 -> (-3) * One
      [] k % 6 = 3 -> 0
      [] k % 6 = 4 -> 14 * One
      [] k % 6 = 5 -> 200 * One

MkParams(k) ==
    [nan |-> FALSE,
     W1 |-> [i \in 1 .. Hidden1 |-> [j \in 1 .. InDim |-> ((i + 2 * j + k) % 3) - 1]],
     b1 |-> [i \in 1 .. Hidden1 |-> (((i + k) % 3) - 1) * (One \div 4)],
     W2 |-> [i \in 1 .. Hidden2 |-> [j \in 1 .. Hidden1 |-> ((2 * i + j + k) % 3) - 1]],
     b2 |-> [i \in 1 .. Hidden2 |-> (((i + 2 * k) % 3) - 1) * (One \div 2)],
     W3 |-> [i \in 1 .. 1 |-> [j \in 1 .. Hidden2 |-> ((j + k) % 3) - 1]],
     b3 |-> <<Bias3(k)>>]

FiniteParams == { MkParams(k) : k \in 0 .. (NumParams - 1) }
NaNParams == [MkParams(0) EXCEPT !.nan = TRUE]
AllParams == FiniteParams \cup {NaNParams}

\* the hard-coded sample of main and generate_sample_input
SampleInput == << Rat(15, 100), Rat(35, 100), Rat(45, 100), Rat(30, 100), Rat(25, 100) >>
ToTensor(row) == [j \in 1 .. Len(row) |-> ToFloat32(row[j])]

\* ------------------------------------------- numpy's global generator

(* The generator is a feedback shift register (as MT19937 is): a draw     *)
(* outputs the head word and shifts in a word fed back from the register. *)
(* Its state is the register plus the cached second Gaussian of the       *)
(* legacy normal().  A word w stands for the double in [0,1) UVal(w) when  *)
(* read by uniform(), and for the pair of standard normals ZVal(w),       *)
(* ZVal2(w) when read by normal().                                        *)
NumWords == 10
Words == 0 .. (NumWords - 1)

UVals ==
    << Num(0), Rat(48, 999), Rat(49, 999), Rat(1, 5), Rat(499, 999),
       Rat(500, 999), Rat(3, 5), Rat(7, 10), Rat(4, 5), Rat(998, 999) >>
UVal(w) == UVals[(w % 10) + 1]

ZVals ==
    << Num(-20), Num(-4), Num(-1), Rat(-1, 2), Num(0),
       Rat(1, 2), Num(1), Num(4), Num(20), Rat(4, 5) >>
ZVal(w) == ZVals[(w % 10) + 1]
ZVal2(w) == ZVals[((3 * w + 1) % 10) + 1]

Feedback(reg) == (reg[1] + reg[Len(reg)] + 1) % NumWords

\* one step of the register: <<output word, next register>>
NextWord(reg) == <<reg[1], Append(Tail(reg), Feedback(reg))>>

\* the register a seed other than 42 initialises
OtherSeedReg(s) == [i \in 1 .. RegLen |-> (s + 3 * i) % NumWords]

VARIABLES
    \* numpy's generator and the callers of generate_training_data
    seed42,     \* the register np.random.seed(42) initialises (fixed)
    rng,        \* numpy's global generator: [reg, has_gauss, gauss]
    res1, res2, \* what the first and second call of the generator returned
    others,     \* draws made by other code between the calls so far
    \* the model
    params,     \* the parameters of the DifficultyModel instance
    infer,      \* the last inference made on it: <<x, raw, y>>
    \* one run of main
    pc,         \* where the run is
    data,       \* X_tensor, y_tensor
    epoch,      \* the loop variable of the training loop (iterations done)
    steps,      \* optimizer.step() calls made
    loss,       \* the last loss computed
    reported,   \* the epochs whose loss was printed
    stages,     \* the stages of main completed, in order
    dirExists,  \* ./build exists
    disk,       \* the files under ./build
    disk0,      \* the files under ./build when the run started
    written,    \* the files this run has opened for writing, in order
    exitStatus, \* the exit status of the process, Running until it ends
    prediction, \* the test prediction printed
    trained     \* the parameters train_model returned

genVars == <<seed42, rng, res1, res2, others>>
modelVars == <<params, infer>>
mainVars == <<pc, data, epoch, steps, loss, reported, stages, dirExists, disk, disk0,
              written, exitStatus, prediction, trained>>
vars == <<genVars, modelVars, mainVars>>

\* np.random.seed(s): the register is re-initialised, the cached Gaussian dropped
NoReseed(table, r, s) == r
Seed(table, r, s) ==
    [reg |-> IF s = 42 THEN table ELSE OtherSeedReg(s),
     has_gauss |-> FALSE,
     gauss |-> Num(0)]

\* np.random.uniform(lo, hi): <<value, next generator>>
Uniform(r, lo, hi) ==
    LET nw == NextWord(r.reg)
    IN  << RAdd(lo, RMul(RSub(hi, lo), UVal(nw[1]))),
           [r EXCEPT !.reg = nw[2]] >>

\* np.random.uniform(lo, hi, n): <<array, next generator>>
RECURSIVE UniformArray(_, _, _, _)
UniformArray(r, lo, hi, n) ==
    IF n = 0 THEN << <<>>, r >>
    ELSE LET d == Uniform(r, lo, hi)
             rest == UniformArray(d[2], lo, hi, n - 1)
         IN  << <<d[1]>> \o rest[1], rest[2] >>

\* np.random.normal(loc, scale): <<value, next generator>>
Normal(r, loc, scale) ==
    IF r.has_gauss
    THEN << RAdd(loc, RMul(scale, r.gauss)),
            [r EXCEPT !.has_gauss = FALSE, !.gauss = Num(0)] >>
    ELSE LET nw == NextWord(r.reg)
         IN  << RAdd(loc, RMul(scale, ZVal(nw[1]))),
                [reg |-> nw[2], has_gauss |-> TRUE, gauss |-> ZVal2(nw[1])] >>

\* ------------------------------------------------ generate_training_data

\* np.clip(v, lo, hi)
ClipNoLower(v, lo, hi) == IF RLt(hi, v) THEN hi ELSE v
Clip(v, lo, hi) == IF RLt(v, lo) THEN lo ELSE IF RLt(hi, v) THEN hi ELSE v

\* player count adjustment
PlayerAdjInclusive(p) ==
    IF RLe(p, Num(50)) THEN Num(40)
    ELSE IF RLt(Num(500), p) THEN Num(-20) ELSE Num(0)
PlayerAdj(p) ==
    IF RLt(p, Num(50)) THEN Num(40)
    ELSE IF RLt(Num(500), p) THEN Num(-20) ELSE Num(0)

\* rare rate feedback loop
RareAdj(r) ==
    IF RLt(Rat(6, 10), r) THEN Num(-50)
    ELSE IF RLt(r, Rat(2, 10)) THEN Num(50) ELSE Num(0)

\* grid saturation
SaturationAdj(mined) ==
    LET saturation == RDiv(mined, Num(1024))
    IN  IF RLt(Rat(7, 10), saturation) THEN Num(30) ELSE Num(0)

\* the body of the loop for one sample, given its noise draw
Target(players, rare, mined, time, noise) ==
    LET b0 == Num(128)
        b1 == RAdd(b0, PlayerAdj(players))
        b2 == RAdd(b1, RareAdj(rare))
        b3 == RAdd(b2, SaturationAdj(mined))
        b4 == RSub(b3, RMul(time, Num(20)))
        b5 == RAdd(b4, noise)
    IN  RDiv(Clip(b5, Num(1), Num(255)), Num(255))

\* for i in range(n_samples): <<target, noise drawn, next generator>>
RECURSIVE TargetLoop(_, _, _, _, _, _, _)
TargetLoop(i, n, r, players, rare, mined, time) ==
    IF i > n THEN << <<>>, <<>>, r >>
    ELSE LET d == Normal(r, Num(0), Num(10))
             rest == TargetLoop(i + 1, n, d[2], players, rare, mined, time)
         IN  << <<Target(players[i], rare[i], mined[i], time[i], d[1])>> \o rest[1],
                <<d[1]>> \o rest[2],
                rest[3] >>

(* generate_training_data(n): X and y are what the function returns; the   *)
(* raw arrays and the noise are its locals, kept for the properties;       *)
(* entry and rng are the global generator as the call finds and leaves it. *)
generate_training_data(table, r, n) ==
    LET r0 == Seed(table, r, 42)
        tp == UniformArray(r0, Num(1), Num(1000), n)
        sc == UniformArray(tp[2], Num(0), Num(10000), n)
        rr == UniformArray(sc[2], Num(0), Num(1), n)
        tm == UniformArray(rr[2], Num(0), Num(32 * 32), n)
        tf == UniformArray(tm[2], Num(0), Num(1), n)
        tl == TargetLoop(1, n, tf[2], tp[1], rr[1], tm[1], tf[1])
    IN  [n |-> n,
         entry |-> r,
         X |-> [i \in 1 .. n |->
                  << RDiv(tp[1][i], Num(1000)), RDiv(sc[1][i], Num(10000)),
                     rr[1][i], RDiv(tm[1][i], Num(1024)), tf[1][i] >>],
         y |-> [i \in 1 .. n |-> << tl[1][i] >>],
         total_players |-> tp[1], avg_score |-> sc[1], rare_rate |-> rr[1],
         total_mined |-> tm[1], time_factor |-> tf[1], noise |-> tl[2],
         rng |-> tl[3]]

None == [n |-> -1]
NoInfer == <<>>
Running == 0 - 1

\* ------------------------------------------------------------ train_model

\* samples main trains on (n_samples defaults to 10000)
TrainN == 2
NumEpochs == 500
ReportEvery == 100

NoData == [X |-> <<>>, y |-> <<>>]
NoLoss == [output |-> <<>>, target |-> <<>>, params |-> NaNParams]

\* torch.FloatTensor(X), torch.FloatTensor(y)
Tensors(out) ==
    [X |-> [i \in 1 .. out.n |-> ToTensor(out.X[i])],
     y |-> [i \in 1 .. out.n |-> ToTensor(out.y[i])]]

\* model.network(X_tensor), and model(X_tensor)
ScaledOutput(p, X) == [i \in 1 .. Len(X) |-> <<forward(p, X[i])>>]
RawOutput(p, X) == [i \in 1 .. Len(X) |-> <<Network(p, X[i])>>]

(* criterion(raw_output, y_tensor): the value is not computed, its         *)
(* arguments are kept, with the parameters its autograd graph leads to.    *)
MSELoss(output, target, p) == [output |-> output, target |-> target, params |-> p]
Finite(l) == \A i \in 1 .. Len(l.output) : l.output[i][1] # NaN

(* loss.backward(); optimizer.step().  The Adam update is not computed:    *)
(* any parameter state may result, numeric divergence included; a          *)
(* non-finite loss or parameter state leaves non-finite parameters.        *)
OptimizerStep(p, l) ==
    IF p.nan \/ ~Finite(l) THEN {NaNParams} ELSE AllParams

\* for epoch in range(500): the loop goes on while this holds
StopsOnNonFinite(e, l) == e < NumEpochs /\ Finite(l)
LoopContinues(e, l) == e < NumEpochs

\* if (epoch + 1) % 100 == 0
ReportDue(e) == (e + 1) % ReportEvery = 0

\* ------------------------------------------------------------------- main

Pipeline ==
    << "train", "predict", "export_graph", "export_input", "save_params",
       "print_next_steps" >>
FileOrder == << "graph", "input", "weights" >>
Files == {"graph", "input", "weights"}

Absent == [kind |-> "absent", body |-> <<>>]
Old == [kind |-> "old", body |-> <<>>]
Partial == [kind |-> "partial", body |-> <<>>]
\* difficulty_model.onnx: the traced forward pass (parameters, with the rescale)
GraphFile(p) == [kind |-> "graph", body |-> <<p, TRUE>>]
\* input.json
InputFile == [kind |-> "input", body |-> << [input_data |-> <<SampleInput>>] >>]
\* difficulty_model.pt: model.state_dict()
WeightsFile(p) == [kind |-> "weights", body |-> <<p>>]

\* what the exported graph computes on x
RunGraph(g, x) ==
    IF g.body[2] THEN Rescale(Network(g.body[1], x)) ELSE Network(g.body[1], x)

\* states the global generator may be in before the first call
StartRngs ==
    { [reg |-> OtherSeedReg(7), has_gauss |-> FALSE, gauss |-> Num(0)],
      [reg |-> OtherSeedReg(1), has_gauss |-> TRUE, gauss |-> Num(4)] }

MainInit ==
    /\ pc = "start"
    /\ params = NaNParams
    /\ infer = NoInfer
    /\ data = NoData
    /\ epoch = 0
    /\ steps = 0
    /\ loss = NoLoss
    /\ reported = <<>>
    /\ stages = <<>>
    /\ dirExists \in BOOLEAN
    /\ disk = [f \in Files |-> IF dirExists THEN Old ELSE Absent]
    /\ disk0 = disk
    /\ written = <<>>
    /\ exitStatus = Running
    /\ prediction = 0
    /\ trained = NaNParams

Init ==
    /\ seed42 = [i \in 1 .. RegLen |-> (2 * i) % NumWords]
    /\ rng = [reg |-> OtherSeedReg(7), has_gauss |-> FALSE, gauss |-> Num(0)]
    /\ res1 = None
    /\ res2 = None
    /\ others = 0
    /\ MainInit

\* train_model, up to the loop: the data set, the tensors, a fresh model, the optimizer
TrainSetup ==
    /\ pc = "start"
    /\ LET out == generate_training_data(seed42, rng, TrainN)
       IN  /\ data' = Tensors(out)
           /\ rng' = out.rng
    /\ params' \in FiniteParams
    /\ pc' = "loop"
    /\ UNCHANGED <<seed42, res1, res2, others, infer, epoch, steps, loss, reported,
                   stages, dirExists, disk, disk0, written, exitStatus, prediction,
                   trained>>

\* one iteration of the training loop
TrainEpoch ==
    /\ pc = "loop"
    /\ LoopContinues(epoch, loss)
    /\ LET raw_output == RawOutput(params, data.X)
           l == MSELoss(raw_output, data.y, params)
       IN  /\ loss' = l
           /\ params' \in OptimizerStep(params, l)
    /\ steps' = steps + 1
    /\ reported' = IF ReportDue(epoch) THEN Append(reported, epoch + 1) ELSE reported
    /\ epoch' = epoch + 1
    /\ UNCHANGED <<genVars, infer, pc, data, stages, dirExists, disk, disk0, written,
                   exitStatus, prediction, trained>>

\* the loop is exhausted: train_model returns the model
TrainReturn ==
    /\ pc = "loop"
    /\ ~LoopContinues(epoch, loss)
    /\ trained' = params
    /\ stages' = Append(stages, "train")
    /\ pc' = "predict"
    /\ UNCHANGED <<genVars, modelVars, data, epoch, steps, loss, reported, dirExists,
                   disk, disk0, written, exitStatus, prediction>>

\* with torch.no_grad(): difficulty = model(test_input)
TestPredict ==
    /\ pc = "predict"
    /\ LET x == ToTensor(SampleInput)
       IN  /\ prediction' = forward(params, x)
           /\ infer' = <<x, Network(params, x), forward(params, x)>>
    /\ stages' = Append(stages, "predict")
    /\ pc' = "export"
    /\ UNCHANGED <<genVars, params, data, epoch, steps, loss, reported, dirExists,
                   disk, disk0, written, exitStatus, trained>>

\* an exception nothing catches: the interpreter ends the process with status 1
Swallowed == pc' = "done" /\ exitStatus' = 0
Uncaught == pc' = "crashed" /\ exitStatus' = 1

\* export_to_onnx(model), reached when main is at `at`
ExportAt(at) ==
    /\ pc = at
    /\ dirExists' = TRUE
    /\ disk' = [disk EXCEPT !["graph"] = GraphFile(params)]
    /\ written' = Append(written, "graph")
    /\ stages' = Append(stages, "export_graph")
    /\ pc' = "sample"
    /\ UNCHANGED <<genVars, modelVars, data, epoch, steps, loss, reported, disk0,
                   exitStatus, prediction, trained>>

ExportEarly == ExportAt("predict") \/ ExportAt("export")
ExportRetrains ==
    /\ pc = "export"
    /\ params' \in FiniteParams \ {params}
    /\ dirExists' = TRUE
    /\ disk' = [disk EXCEPT !["graph"] = GraphFile(params)]
    /\ written' = Append(written, "graph")
    /\ stages' = Append(stages, "export_graph")
    /\ pc' = "sample"
    /\ UNCHANGED <<genVars, infer, data, epoch, steps, loss, reported, disk0,
                   exitStatus, prediction, trained>>
ExportToOnnx == ExportAt("export")

\* export_to_onnx raises: in os.makedirs, while tracing, or while writing the file
ExportFails ==
    /\ pc = "export"
    /\ \E how \in {"makedirs", "trace", "write"} :
          /\ how = "makedirs" => ~dirExists
          /\ dirExists' = (dirExists \/ how # "makedirs")
          /\ disk' = IF how = "write" THEN [disk EXCEPT !["graph"] = Partial] ELSE disk
          /\ written' = IF how = "write" THEN Append(written, "graph") ELSE written
    /\ Uncaught
    /\ UNCHANGED <<genVars, modelVars, data, epoch, steps, loss, reported, stages,
                   disk0, prediction, trained>>

\* generate_sample_input()
GenerateSampleInput ==
    /\ pc = "sample"
    /\ disk' = [disk EXCEPT !["input"] = InputFile]
    /\ written' = Append(written, "input")
    /\ stages' = Append(stages, "export_input")
    /\ pc' = "save"
    /\ UNCHANGED <<genVars, modelVars, data, epoch, steps, loss, reported, dirExists,
                   disk0, exitStatus, prediction, trained>>

\* generate_sample_input raises: in open, or while writing
SampleInputFails ==
    /\ pc = "sample"
    /\ \E how \in {"open", "write"} :
          /\ disk' = IF how = "write" THEN [disk EXCEPT !["input"] = Partial] ELSE disk
          /\ written' = IF how = "write" THEN Append(written, "input") ELSE written
    /\ Uncaught
    /\ UNCHANGED <<genVars, modelVars, data, epoch, steps, loss, reported, stages,
                   dirExists, disk0, prediction, trained>>

\* torch.save(model.state_dict(), ...), reached when main is at `at`
SaveAt(at) ==
    /\ pc = at
    /\ disk' = [disk EXCEPT !["weights"] = WeightsFile(params)]
    /\ written' = Append(written, "weights")
    /\ stages' = Append(stages, "save_params")
    /\ pc' = "print"
    /\ UNCHANGED <<genVars, modelVars, data, epoch, steps, loss, reported, dirExists,
                   disk0, exitStatus, prediction, trained>>

SaveBeforeInput == SaveAt("sample") \/ SaveAt("save")
SaveWeights == SaveAt("save")

\* torch.save raises: in open, or while writing
SaveFails ==
    /\ pc = "save"
    /\ \E how \in {"open", "write"} :
          /\ disk' = IF how = "write" THEN [disk EXCEPT !["weights"] = Partial] ELSE disk
          /\ written' = IF how = "write" THEN Append(written, "weights") ELSE written
    /\ Uncaught
    /\ UNCHANGED <<genVars, modelVars, data, epoch, steps, loss, reported, stages,
                   dirExists, disk0, prediction, trained>>

\* the closing prints; main returns and the interpreter exits with status 0
PrintNextSteps ==
    /\ pc = "print"
    /\ stages' = Append(stages, "print_next_steps")
    /\ pc' = "done"
    /\ exitStatus' = 0
    /\ UNCHANGED <<genVars, modelVars, data, epoch, steps, loss, reported, dirExists,
                   disk, disk0, written, prediction, trained>>

Next ==
    \/ TrainSetup
    \/ TrainEpoch
    \/ TrainReturn
    \/ TestPredict
    \/ ExportToOnnx
    \/ ExportFails
    \/ GenerateSampleInput
    \/ SampleInputFails
    \/ SaveWeights
    \/ SaveFails
    \/ PrintNextSteps

Spec == Init /\ [][Next]_vars

\* ------------------------------------------ callers of the data generator

\* the words seed 42 may put at position i of the register
SeedWords(i) ==
    CASE i = 1 -> {1, 2, 4, 5}
      [] i = 2 -> {0}
      [] i = 3 -> {2, 3, 6, 7}
      [] i = 4 -> {7, 8}
      [] i = 5 -> {0, 5}
      [] i = 6 -> {0, 4, 6, 8}
      [] OTHER -> {0}

RECURSIVE TablesFrom(_)
TablesFrom(i) ==
    IF i > RegLen THEN { <<>> }
    ELSE { <<w>> \o t : w \in SeedWords(i), t \in TablesFrom(i + 1) }
Seed42Tables == TablesFrom(1)

GenInit ==
    /\ seed42 \in Seed42Tables
    /\ rng \in StartRngs
    /\ res1 = None
    /\ res2 = None
    /\ others = 0
    /\ MainInit
    /\ ~dirExists

\* a caller runs generate_training_data(n); the first two calls are recorded
Call ==
    /\ res2 = None
    /\ \E n \in 0 .. MaxN :
          LET out == generate_training_data(seed42, rng, n)
          IN  /\ IF res1 = None
                 THEN res1' = out /\ res2' = res2
                 ELSE res1' = res1 /\ res2' = out
              /\ rng' = out.rng
    /\ UNCHANGED <<seed42, others, modelVars, mainVars>>

\* between the calls other code draws from, or reseeds, the global generator
OtherUniform ==
    /\ res1 # None /\ res2 = None
    /\ others < MaxOther
    /\ rng' = Uniform(rng, Num(0), Num(1))[2]
    /\ others' = others + 1
    /\ UNCHANGED <<seed42, res1, res2, modelVars, mainVars>>

OtherNormal ==
    /\ res1 # None /\ res2 = None
    /\ others < MaxOther
    /\ rng' = Normal(rng, Num(0), Num(1))[2]
    /\ others' = others + 1
    /\ UNCHANGED <<seed42, res1, res2, modelVars, mainVars>>

OtherSeed ==
    /\ res1 # None /\ res2 = None
    /\ others < MaxOther
    /\ \E s \in {1, 7} : rng' = Seed(seed42, rng, s)
    /\ others' = others + 1
    /\ UNCHANGED <<seed42, res1, res2, modelVars, mainVars>>

GenNext == Call \/ OtherUniform \/ OtherNormal \/ OtherSeed

GenSpec == GenInit /\ [][GenNext]_vars

\* ------------------------------------------------ inference on the model

\* feature vectors with every component 0 or 1, and the hard-coded sample
Inputs == [1 .. InDim -> {0, One}] \cup {ToTensor(SampleInput)}

ModelInit ==
    /\ seed42 = [i \in 1 .. RegLen |-> (2 * i) % NumWords]
    /\ rng \in StartRngs
    /\ res1 = None
    /\ res2 = None
    /\ others = 0
    /\ params \in AllParams
    /\ infer = NoInfer
    /\ pc = "start"
    /\ data = NoData
    /\ epoch = 0
    /\ steps = 0
    /\ loss = NoLoss
    /\ reported = <<>>
    /\ stages = <<>>
    /\ dirExists = FALSE
    /\ disk = [f \in Files |-> Absent]
    /\ disk0 = disk
    /\ written = <<>>
    /\ exitStatus = Running
    /\ prediction = 0
    /\ trained = NaNParams

\* model(x) in scaled mode, on any feature vector
Infer ==
    /\ \E x \in Inputs : infer' = <<x, Network(params, x), forward(params, x)>>
    /\ UNCHANGED <<genVars, params, mainVars>>

ModelNext == Infer

ModelSpec == ModelInit /\ [][ModelNext]_vars

\* ------------------------------------------------- properties: generator

\* the calls made so far, and the samples of a call
Calls == {c \in {res1, res2} : c # None}
Samples(c) == 1 .. c.n

\* what the policy prescribes for sample i of call c, times 255
PolicyP(p) ==
    CASE RLt(p, Num(50)) -> 40
      [] RLt(Num(500), p) -> -20
      [] RLe(Num(50), p) /\ RLe(p, Num(500)) -> 0
PolicyR(r) ==
    CASE RLt(Rat(3, 5), r) -> -50
      [] RLt(r, Rat(1, 5)) -> 50
      [] RLe(Rat(1, 5), r) /\ RLe(r, Rat(3, 5)) -> 0
PolicyS(m) == IF RLt(Rat(7, 10), RDiv(m, Num(1024))) THEN 30 ELSE 0
PreClip(c, i) ==
    RAdd(RSub(Num(128 + PolicyP(c.total_players[i]) + PolicyR(c.rare_rate[i])
                      + PolicyS(c.total_mined[i])),
              RMul(Num(20), c.time_factor[i])),
         c.noise[i])
Clipped(v) == IF RLt(v, Num(1)) THEN Num(1) ELSE IF RLt(Num(255), v) THEN Num(255) ELSE v

C3_Determinism ==
    (res1 # None /\ res2 # None /\ res1.n = res2.n)
        => (res1.X = res2.X /\ res1.y = res2.y)

\* two calls of the same non-empty size that found the generator in different
\* states, the second with a Gaussian cached by a draw made in between
C3_Witness ==
    /\ res1 # None /\ res2 # None
    /\ res1.n = res2.n /\ res1.n > 0
    /\ res1.entry # res2.entry
    /\ res2.entry.has_gauss
    /\ res2.entry.reg # res1.rng.reg
    /\ res1.X = res2.X /\ res1.y = res2.y

\* ------------------------------------------------------ properties: main

IsPrefix(a, b) == Len(a) <= Len(b) /\ a = SubSeq(b, 1, Len(a))
Done(stage) == \E i \in 1 .. Len(stages) : stages[i] = stage
Opened(f) == \E i \in 1 .. Len(written) : written[i] = f
TestInput == ToTensor(SampleInput)

(* C4: the loss is computed on the raw sigmoid output (in [0,1]) against   *)
(* the normalized labels, never on the scaled output; the test prediction  *)
(* and the exported graph are in scaled mode, raw*254+1 on the same        *)
(* parameters and input.                                                   *)
C4_Modes ==
    /\ steps > 0 =>
          /\ loss.target = data.y
          /\ Len(loss.output) = Len(data.X)
          /\ \A i \in 1 .. Len(data.X) :
                LET raw == Network(loss.params, data.X[i])
                IN  /\ loss.output[i] = <<raw>>
                    /\ raw # NaN => (0 <= raw /\ raw <= One)
    /\ Done("predict") =>
          LET raw == Network(params, TestInput)
          IN  prediction = IF raw = NaN THEN NaN ELSE Fl(Fl(raw * 254) + One)
    /\ disk["graph"].kind = "graph" =>
          LET raw == Network(params, TestInput)
          IN  /\ disk["graph"].body[2]
              /\ RunGraph(disk["graph"], TestInput)
                    = IF raw = NaN THEN NaN ELSE Fl(Fl(raw * 254) + One)

\* a finished run whose last loss was taken on outputs strictly inside (0,1)
\* and whose prediction and graph are scaled
C4_Witness ==
    /\ pc = "done"
    /\ \E i \in 1 .. Len(loss.output) : 0 < loss.output[i][1] /\ loss.output[i][1] < One
    /\ prediction > One
    /\ disk["graph"].kind = "graph"
    /\ RunGraph(disk["graph"], TestInput) = prediction

\* the stages completed when main is at a given place
StagesAt(at) ==
    CASE at \in {"start", "loop"} -> 0
      [] at = "predict" -> 1
      [] at = "export" -> 2
      [] at = "sample" -> 3
      [] at = "save" -> 4
      [] at = "print" -> 5
      [] at = "done" -> 6

(* C5: a run performs train, predict, export graph, export sample input,   *)
(* save parameters, print next steps, in this order, each once; training   *)
(* generates the data set and builds the model; nothing is written before  *)
(* training has run all its epochs.                                        *)
C5_Order ==
    /\ IsPrefix(stages, Pipeline)
    /\ pc # "crashed" => Len(stages) = StagesAt(pc)
    /\ pc = "crashed" => Len(stages) \in 2 .. 4
    /\ pc # "start" => Len(data.X) = TrainN /\ Len(data.y) = TrainN
    /\ (written # <<>> \/ disk # disk0 \/ dirExists # (disk0["graph"] = Old)) =>
          (epoch = NumEpochs /\ Done("train") /\ Done("predict"))

\* a run that went through all six stages
C5_Witness ==
    /\ pc = "done"
    /\ stages = Pipeline
    /\ written = FileOrder
    /\ epoch = NumEpochs

ReportsUpTo(e) == [k \in 1 .. (e \div 100) |-> 100 * k]

(* C6: the training loop runs exactly 500 epochs of one optimizer step     *)
(* each and leaves at no other point, whatever the losses (non-finite      *)
(* included); the loss is reported after epochs 100, 200, 300, 400, 500    *)
(* and no other.                                                           *)
C6_Loop ==
    /\ pc = "start" => (epoch = 0 /\ steps = 0 /\ reported = <<>>)
    /\ pc = "loop" =>
          /\ epoch <= 500 /\ steps = epoch /\ reported = ReportsUpTo(epoch)
          /\ LoopContinues(epoch, loss) <=> epoch < 500
    /\ pc \notin {"start", "loop"} =>
          (epoch = 500 /\ steps = 500 /\ reported = <<100, 200, 300, 400, 500>>)

\* training returned after 500 epochs although the loss was not finite
C6_Witness ==
    /\ pc = "predict"
    /\ ~Finite(loss)
    /\ epoch = 500 /\ steps = 500
    /\ reported = <<100, 200, 300, 400, 500>>

(* C7, as claimed: every run, also one in which directory creation, the    *)
(* graph export, a file write or the parameter save fails, reaches the end *)
(* of the pipeline and exits with status 0.                                *)
C7_AlwaysExitsZero ==
    pc \in {"done", "crashed"} => (exitStatus = 0 /\ stages = Pipeline)

(* C7, amended: a run that goes through the whole pipeline exits with      *)
(* status 0; a run in which directory creation, the graph export, a file   *)
(* write or the parameter save fails ends there with status 1 and performs *)
(* no later stage.                                                         *)
C7_ExitStatus ==
    /\ pc = "done" => (exitStatus = 0 /\ stages = Pipeline)
    /\ pc = "crashed" =>
          (exitStatus = 1 /\ Len(stages) \in 2 .. 4 /\ ~Done("print_next_steps"))
    /\ pc \notin {"done", "crashed"} => exitStatus = Running

\* the export failed while writing the graph: status 1, nothing after it
C7_Witness ==
    /\ pc = "crashed"
    /\ exitStatus = 1
    /\ stages = <<"train", "predict">>
    /\ written = <<"graph">>

(* C8: the files are written one at a time in the order graph, sample      *)
(* input, parameters; what this run has written is always a prefix of that *)
(* order; a failure leaves a proper partial set, the files written staying *)
(* as they are and the others as they were.                                *)
C8_PartialSet ==
    /\ IsPrefix(written, FileOrder)
    /\ \A f \in Files :
          IF Opened(f) THEN disk[f].kind \in {f, "partial"} ELSE disk[f] = disk0[f]
    /\ \A i \in 1 .. Len(written) - 1 : disk[written[i]].kind = written[i]
    /\ pc = "crashed" => \E f \in Files : disk[f].kind # f

\* the save failed after the graph and the sample input were written
C8_Witness ==
    /\ pc = "crashed"
    /\ written = <<"graph", "input">>
    /\ disk["graph"].kind = "graph"
    /\ disk["input"] = InputFile
    /\ disk["weights"] = Absent

C9_Snapshot ==
    pc \notin {"start", "loop"} =>
        /\ params = trained
        /\ Done("predict") =>
              /\ prediction = forward(params, TestInput)
              /\ infer[3] = forward(params, infer[1])
        /\ disk["graph"].kind = "graph" => disk["graph"].body[1] = params
        /\ disk["weights"].kind = "weights" => disk["weights"].body[1] = params

(* C9: the parameters change only in the optimizer step (after the model   *)
(* is built); once train_model has returned they stay as returned, so the  *)
(* graph and the snapshot hold the parameters of the test prediction, and  *)
(* inference on the same input gives the same output again.                *)
C9_Frame ==
    /\ [](C9_Snapshot)
    /\ [][params' # params =>
            (pc = "start" \/ (pc = "loop" /\ steps' = steps + 1))]_vars

\* a finished run: graph and snapshot hold the parameters of the prediction
C9_Witness ==
    /\ pc = "done"
    /\ ~params.nan
    /\ disk["graph"].body[1] = trained
    /\ disk["weights"].body[1] = trained
    /\ RunGraph(disk["graph"], TestInput) = prediction

\* ----------------------------------------------------- properties: model

Output01(raw) == raw # NaN /\ 0 <= raw /\ raw <= One

(* C10, as claimed: for every parameter state and input in [0,1]^5 with a  *)
(* sigmoid output in [0,1], the scaled output lies in [1,255], is 1        *)
(* exactly when the sigmoid output is 0 and 255 exactly when it is 1.      *)
C10_BoundsExact ==
    (infer # NoInfer /\ Output01(infer[2])) =>
        /\ One <= infer[3] /\ infer[3] <= 255 * One
        /\ infer[3] = One <=> infer[2] = 0
        /\ infer[3] = 255 * One <=> infer[2] = One

(* C10, amended: the scaled output lies in [1,255]; it is 1 when the       *)
(* sigmoid output is 0 and 255 exactly when the sigmoid output is 1 (the   *)
(* lower bound is also the output for positive sigmoid outputs that the    *)
(* float32 addition of 1 rounds away).                                     *)
C10_Bounds ==
    (infer # NoInfer /\ Output01(infer[2])) =>
        /\ One <= infer[3] /\ infer[3] <= 255 * One
        /\ infer[2] = 0 => infer[3] = One
        /\ infer[3] = 255 * One <=> infer[2] = One

\* the zero vector on parameters that saturate the sigmoid at 0
C10_Witness ==
    /\ infer # NoInfer
    /\ infer[1] = [j \in 1 .. InDim |-> 0]
    /\ infer[2] = 0
    /\ infer[3] = One

====
